---- MODULE Spec2Model ----
(***************************************************************************)
(* Model of dependabutler's reconciliation engine (package config):        *)
(* coverage check, registry resolver, entry synthesizer, maintenance pass, *)
(* serializer and change tracker.                                          *)
(*                                                                         *)
(* Strings whose characters matter to the code (paths, group names, URLs,  *)
(* file contents) are sequences of one-character strings; <<>> is "".      *)
(* Ecosystem ids and registry names are only compared, they are atoms.     *)
(***************************************************************************)
EXTENDS Integers, Sequences, FiniteSets, TLC

VARIABLES
    config,      \* the DependabotConfig being reconciled: [Registries, Updates]
    changeInfo,  \* the ChangeInfo of the last UpdateConfig / ProcessManifest
    toolConfig,  \* the ToolConfig of the run
    manifests,   \* the manifest map, as a set of [Key, Value]
    dirExists,   \* the directories the injected checker reports as existing
    loader,      \* the files whose content (per the injected loader) names the host
    pc,          \* "input" before any call, then the name of the last operation
    args,        \* the arguments of the last call
    ret,         \* the value the last call returned
    pre,         \* the document as it was before the last call
    runs,        \* number of UpdateConfig runs done on the document
    yamlPrev     \* ToYaml of the document after the previous UpdateConfig run

vars == <<config, changeInfo, toolConfig, manifests, dirExists, loader,
          pc, args, ret, pre, runs, yamlPrev>>

----------------------------------------------------------------------------
(* Bounds *)

MaxUpdates == 2
MaxManifests == 2
MaxRuns == 2

----------------------------------------------------------------------------
(* Strings *)

\* the characters used, in byte order
CharOrder == <<"$", "/", "0", "1", "2", "3", "4", "5", "6", "7", "8", "9",
               ":", "_", "a", "b", "f", "g", "h", "{", "}">>

Rank(c) == CHOOSE i \in 1..Len(CharOrder) : CharOrder[i] = c

RECURSIVE StrLess(_, _)
StrLess(s, t) ==
    IF t = <<>> THEN FALSE
    ELSE IF s = <<>> THEN TRUE
    ELSE IF Head(s) = Head(t) THEN StrLess(Tail(s), Tail(t))
    ELSE Rank(Head(s)) < Rank(Head(t))

HasPrefix(s, prefix) ==
    Len(prefix) <= Len(s) /\ SubSeq(s, 1, Len(prefix)) = prefix

HasSuffix(s, suffix) ==
    Len(suffix) <= Len(s) /\ SubSeq(s, Len(s) - Len(suffix) + 1, Len(s)) = suffix

TrimSuffix(s, suffix) ==
    IF HasSuffix(s, suffix) THEN SubSeq(s, 1, Len(s) - Len(suffix)) ELSE s

StrContains(s, sub) ==
    \E i \in 0..(Len(s) - Len(sub)) : SubSeq(s, i + 1, i + Len(sub)) = sub

\* filepath.Split: the directory part, up to and including the final slash
SplitDir(path) ==
    LET slashes == {i \in 1..Len(path) : path[i] = "/"}
    IN  IF slashes = {} THEN <<>>
        ELSE SubSeq(path, 1, CHOOSE i \in slashes : \A j \in slashes : j <= i)

Contains(list, item) == \E i \in 1..Len(list) : list[i] = item

----------------------------------------------------------------------------
(* Path / coverage resolver *)

PathWithEndingSlash(path) ==
    IF path = <<"/">> \/ path = <<>> THEN <<"/">>
    ELSE IF HasSuffix(path, <<"/">>) THEN path
    ELSE path \o <<"/">>

\* strings.TrimSuffix(manifestPath, "/") unless manifestPath is "/"
TrimManifestPath(manifestPath) ==
    IF manifestPath = <<"/">> THEN <<"/">> ELSE TrimSuffix(manifestPath, <<"/">>)

GetManifestPath(manifestFile, manifestType) ==
    IF manifestType = "github-actions" THEN <<"/">>
    ELSE TrimManifestPath(SplitDir(<<"/">> \o manifestFile))

cmpFuncMutant(manifestType, a, b) == HasPrefix(a, b)

cmpFunc(manifestType, a, b) ==
    IF manifestType = "docker" THEN a = b ELSE HasPrefix(a, b)

\* a variant that looks at the directory and at every element of directories
isPathCoveredMutant(manifestPath, manifestType, directory, directories) ==
    \/ /\ directory # <<>>
       /\ cmpFunc(manifestType, PathWithEndingSlash(manifestPath),
                  PathWithEndingSlash(directory))
    \/ \E i \in 1..Len(directories) :
          cmpFunc(manifestType, PathWithEndingSlash(manifestPath),
                  PathWithEndingSlash(directories[i]))

isPathCovered(manifestPath, manifestType, directory, directories) ==
    IF directory # <<>>
    THEN cmpFunc(manifestType, PathWithEndingSlash(manifestPath), PathWithEndingSlash(directory))
    ELSE \E i \in 1..Len(directories) :
            cmpFunc(manifestType, PathWithEndingSlash(manifestPath),
                    PathWithEndingSlash(directories[i]))

hasDirectorySetMutant(update) == update.Directory # <<>>

hasDirectorySet(update) ==
    \/ update.Directory # <<>>
    \/ \E i \in 1..Len(update.Directories) : update.Directories[i] # <<>>

\* appends every name, listed or not
AppendMissingMutant(registries, names) == registries \o names

\* the registries of a covering entry with the names it lacks appended in order
AppendMissing(registries, names) ==
    registries \o SelectSeq(names, LAMBDA name : ~Contains(registries, name))

\* index of the first entry that covers the manifest, 0 if none does
\* the first of the indexes, 0 if there is none
FirstIndex(indexes) ==
    IF indexes = {} THEN 0 ELSE CHOOSE i \in indexes : \A j \in indexes : i <= j

\* gives up at the first entry without ecosystem or directory
CoveringIndexMutant(updates, manifestFile, manifestType) ==
    FirstIndex({i \in 1..Len(updates) :
                   /\ \A j \in 1..i : /\ updates[j].PackageEcosystem # ""
                                      /\ hasDirectorySet(updates[j])
                   /\ updates[i].PackageEcosystem = manifestType
                   /\ isPathCovered(
                          PathWithEndingSlash(GetManifestPath(manifestFile, manifestType)),
                          manifestType, updates[i].Directory, updates[i].Directories)})

\* index of the first entry that covers the manifest, 0 if none does
CoveringIndex(updates, manifestFile, manifestType) ==
    FirstIndex({i \in 1..Len(updates) :
                   /\ updates[i].PackageEcosystem # ""
                   /\ hasDirectorySet(updates[i])
                   /\ updates[i].PackageEcosystem = manifestType
                   /\ isPathCovered(
                          PathWithEndingSlash(GetManifestPath(manifestFile, manifestType)),
                          manifestType, updates[i].Directory, updates[i].Directories)})

\* what IsManifestCovered returns and leaves when entry i is the first to cover
CoveredBy(cfg, i, updateRegistries) ==
    IF i = 0 THEN [covered |-> FALSE, config |-> cfg]
    ELSE [covered |-> TRUE,
          config  |-> [cfg EXCEPT !.Updates[i].Registries =
                          AppendMissing(@, updateRegistries)]]

\* IsManifestCovered: the returned flag and the document it leaves
IsManifestCovered(cfg, manifestFile, manifestType, updateRegistries) ==
    CoveredBy(cfg, CoveringIndex(cfg.Updates, manifestFile, manifestType), updateRegistries)

----------------------------------------------------------------------------
(* Registry resolver *)

Letters == {"a", "b", "f", "g", "h"}

\* url.Parse(...).Hostname(): the scheme is a run of letters before the first
\* colon; a host is present only when "//" follows; it ends at the next slash
Hostname(url) ==
    LET colons == {i \in 2..Len(url) :
                      url[i] = ":" /\ \A j \in 1..(i - 1) : url[j] \in Letters}
        schemeEnd == IF colons = {} THEN 0
                     ELSE CHOOSE i \in colons : \A j \in colons : i <= j
        rest == SubSeq(url, schemeEnd + 1, Len(url))
        authority == SubSeq(rest, 3, Len(rest))
        slashes == {i \in 1..Len(authority) : authority[i] = "/"}
    IN  IF ~HasPrefix(rest, <<"/", "/">>) THEN <<>>
        ELSE IF slashes = {} THEN authority
        ELSE SubSeq(authority, 1, (CHOOSE i \in slashes : \A j \in slashes : i <= j) - 1)

\* filepath.Join of a manifest path and a plain file name
JoinPath(dir, file) ==
    IF HasSuffix(dir, <<"/">>) THEN dir \o file ELSE dir \o <<"/">> \o file

\* the injected loader: the content it returns for a file
LoadFile(ld, file) ==
    IF file \in ld THEN <<"g", "a", "g">> ELSE <<"g", "g">>

IsRegistryUsedMutant(manifestFile, manifestPath, defaultRegistry, ld) == TRUE

\* the search of IsRegistryUsed: some file's content contains the hostname
HostnameFound(hostname, searchFiles, ld) ==
    /\ hostname # <<>>
    /\ \E i \in 1..Len(searchFiles) : StrContains(LoadFile(ld, searchFiles[i]), hostname)

IsRegistryUsed(manifestFile, manifestPath, defaultRegistry, ld) ==
    HostnameFound(Hostname(defaultRegistry.URL),
                  <<manifestFile>> \o
                  [i \in 1..Len(defaultRegistry.URLMatchAdditionalFiles) |->
                      JoinPath(manifestPath, defaultRegistry.URLMatchAdditionalFiles[i])],
                  ld)

----------------------------------------------------------------------------
(* Entry synthesizer *)

NoSchedule == [Interval |-> "", Day |-> "", Time |-> "", Timezone |-> ""]
NoCommitMessage == [Prefix |-> "", PrefixDevelopment |-> "", Include |-> ""]
NoCooldown == [SemverMajorDays |-> 0, SemverMinorDays |-> 0, SemverPatchDays |-> 0,
               DefaultDays |-> 0, Include |-> <<>>, Exclude |-> <<>>]

\* a variant that merges the sub-fields of schedule and commit-message
applyOverridesMutant(update, overrides) ==
    [update EXCEPT
        !.Schedule = [f \in DOMAIN @ |->
                         IF overrides.Schedule[f] # "" THEN overrides.Schedule[f] ELSE @[f]],
        !.CommitMessage = [f \in DOMAIN @ |->
                              IF overrides.CommitMessage[f] # ""
                              THEN overrides.CommitMessage[f] ELSE @[f]],
        !.OpenPullRequestsLimit = IF overrides.OpenPullRequestsLimit # 0
                                  THEN overrides.OpenPullRequestsLimit ELSE @,
        !.RebaseStrategy = IF overrides.RebaseStrategy # ""
                           THEN overrides.RebaseStrategy ELSE @,
        !.InsecureExternalCodeExecution =
            IF overrides.InsecureExternalCodeExecution # ""
            THEN overrides.InsecureExternalCodeExecution ELSE @,
        !.Cooldown = IF overrides.Cooldown # NoCooldown THEN overrides.Cooldown ELSE @]

applyOverrides(update, overrides) ==
    [update EXCEPT
        !.Schedule = IF overrides.Schedule # NoSchedule THEN overrides.Schedule ELSE @,
        !.CommitMessage = IF overrides.CommitMessage # NoCommitMessage
                          THEN overrides.CommitMessage ELSE @,
        !.OpenPullRequestsLimit = IF overrides.OpenPullRequestsLimit # 0
                                  THEN overrides.OpenPullRequestsLimit ELSE @,
        !.RebaseStrategy = IF overrides.RebaseStrategy # ""
                           THEN overrides.RebaseStrategy ELSE @,
        !.InsecureExternalCodeExecution =
            IF overrides.InsecureExternalCodeExecution # ""
            THEN overrides.InsecureExternalCodeExecution ELSE @,
        !.Cooldown = IF \/ overrides.Cooldown.SemverMajorDays # 0
                        \/ overrides.Cooldown.SemverMinorDays # 0
                        \/ overrides.Cooldown.SemverPatchDays # 0
                        \/ overrides.Cooldown.DefaultDays # 0
                        \/ Len(overrides.Cooldown.Include) > 0
                        \/ Len(overrides.Cooldown.Exclude) > 0
                     THEN overrides.Cooldown ELSE @]

\* a variant that keeps the value for every ecosystem
fixNewUpdateConfigMutant(update, manifestType) == update

fixNewUpdateConfig(update, manifestType) ==
    IF /\ update.InsecureExternalCodeExecution # ""
       /\ manifestType # "bundler" /\ manifestType # "mix" /\ manifestType # "pip"
    THEN [update EXCEPT !.InsecureExternalCodeExecution = ""]
    ELSE update

\* "if overrides, ok := toolConfig.UpdateOverrides[manifestType]; ok"
applyOverridesOf(update, overrides) ==
    IF overrides # {} THEN applyOverrides(update, (CHOOSE o \in overrides : TRUE).Overrides)
    ELSE update

createUpdateEntry(manifestType, manifestPath, tc) ==
    fixNewUpdateConfig(
        applyOverridesOf(
            [PackageEcosystem |-> manifestType,
             Directory |-> manifestPath,
             Directories |-> <<>>,
             Schedule |-> tc.UpdateDefaults.Schedule,
             Registries |-> <<>>,
             CommitMessage |-> tc.UpdateDefaults.CommitMessage,
             OpenPullRequestsLimit |-> tc.UpdateDefaults.OpenPullRequestsLimit,
             Groups |-> {},
             InsecureExternalCodeExecution |->
                 tc.UpdateDefaults.InsecureExternalCodeExecution,
             RebaseStrategy |-> tc.UpdateDefaults.RebaseStrategy,
             Cooldown |-> tc.UpdateDefaults.Cooldown],
            {o \in tc.UpdateOverrides : o.Ecosystem = manifestType}),
        manifestType)

\* Go maps are sets of records keyed by a field: config.Registries by Name,
\* toolConfig.Registries by (Ecosystem, Name), toolConfig.UpdateOverrides by
\* Ecosystem, update.Groups by Name
HasKey(map, name) == \E r \in map : r.Name = name

DefaultRegistriesOf(tc, manifestType) == {r \in tc.Registries : r.Ecosystem = manifestType}

\* the default-registry loop of ProcessManifest, visiting the map in `order`:
\* the names to reference, the registries map and ChangeInfo.NewRegistries
RECURSIVE DefaultRegistriesLoop(_, _, _, _, _)
DefaultRegistriesLoop(order, manifestFile, manifestPath, ld, acc) ==
    IF order = <<>> THEN acc
    ELSE LET defaultRegistry == Head(order)
             name == defaultRegistry.Name
             skip == /\ defaultRegistry.URLMatchRequired
                     /\ ~IsRegistryUsed(manifestFile, manifestPath, defaultRegistry, ld)
             known == HasKey(acc.Registries, name)
             next ==
                 IF skip THEN acc
                 ELSE [updateRegistries |-> Append(acc.updateRegistries, name),
                       Registries |->
                           IF known THEN acc.Registries
                           ELSE acc.Registries \cup
                                {[Name |-> name,
                                  Type |-> defaultRegistry.Type,
                                  URL |-> defaultRegistry.URL,
                                  Username |-> defaultRegistry.Username,
                                  Password |-> defaultRegistry.Password]},
                       NewRegistries |->
                           IF known THEN acc.NewRegistries
                           ELSE Append(acc.NewRegistries,
                                       [Type |-> defaultRegistry.Type, Name |-> name])]
         IN  DefaultRegistriesLoop(Tail(order), manifestFile, manifestPath, ld, next)

\* "add new registries if required"
WithRegistries(update, updateRegistries) ==
    IF Len(updateRegistries) > 0 THEN [update EXCEPT !.Registries = updateRegistries]
    ELSE update

\* "check if the manifest itself is covered, and add it if necessary": cov is
\* what IsManifestCovered returned and left
AddIfNotCovered(cov, ci, manifestFile, manifestType, manifestPath, tc, updateRegistries) ==
    IF cov.covered THEN [config |-> cov.config, changeInfo |-> ci]
    ELSE [config |-> [cov.config EXCEPT !.Updates =
                         Append(@, WithRegistries(
                                       createUpdateEntry(manifestType, manifestPath, tc),
                                       updateRegistries))],
          changeInfo |-> [ci EXCEPT !.NewUpdates =
                             Append(@, [Type |-> manifestType, Directory |-> manifestPath,
                                        File |-> manifestFile])]]

\* ProcessManifest once the default-registry loop has left `regs`
ProcessCoverage(cfg, ci, manifestFile, manifestType, manifestPath, tc, regs) ==
    AddIfNotCovered(
        IsManifestCovered([cfg EXCEPT !.Registries = regs.Registries],
                          manifestFile, manifestType, regs.updateRegistries),
        [ci EXCEPT !.NewRegistries = regs.NewRegistries],
        manifestFile, manifestType, manifestPath, tc, regs.updateRegistries)

\* ProcessManifest of a manifest in manifestPath
ProcessManifestIn(cfg, ci, manifestFile, manifestType, manifestPath, tc, ld, order) ==
    ProcessCoverage(cfg, ci, manifestFile, manifestType, manifestPath, tc,
                    DefaultRegistriesLoop(order, manifestFile, manifestPath, ld,
                        [updateRegistries |-> <<>>, Registries |-> cfg.Registries,
                         NewRegistries |-> ci.NewRegistries]))

\* ProcessManifest: the document and the ChangeInfo it leaves; `order` is the
\* iteration order of the default-registry map of the manifest's ecosystem
ProcessManifest(cfg, ci, manifestFile, manifestType, tc, ld, order) ==
    IF manifestFile = <<>> \/ manifestType = "" THEN [config |-> cfg, changeInfo |-> ci]
    ELSE ProcessManifestIn(cfg, ci, manifestFile, manifestType,
                           GetManifestPath(manifestFile, manifestType), tc, ld, order)

----------------------------------------------------------------------------
(* Maintenance pass *)

\* repairs nothing
fixExistingUpdateConfigMutant(update) == [update |-> update, fixed |-> FALSE]

fixExistingUpdateConfig(update) ==
    IF ~hasDirectorySet(update)
    THEN [update |-> [update EXCEPT !.Directory = <<"/">>, !.Directories = <<>>],
          fixed |-> TRUE]
    ELSE [update |-> update, fixed |-> FALSE]

\* the placeholder exclude pattern "@getyourguide*"
DefaultExclude == <<"@getyourguide*">>

\* a variant that takes the include and exclude lists of the defaults too
addCooldownToExistingUpdateMutant(update, tc) ==
    IF /\ update.Cooldown.SemverMajorDays # 0 /\ update.Cooldown.SemverMinorDays # 0
       /\ update.Cooldown.SemverPatchDays # 0 /\ update.Cooldown.DefaultDays # 0
    THEN [update |-> update, fixed |-> FALSE]
    ELSE [update |-> [update EXCEPT !.Cooldown = tc.UpdateDefaults.Cooldown], fixed |-> TRUE]

addCooldownToExistingUpdate(update, tc) ==
    LET hasCooldownConfig == /\ update.Cooldown.SemverMajorDays # 0
                             /\ update.Cooldown.SemverMinorDays # 0
                             /\ update.Cooldown.SemverPatchDays # 0
                             /\ update.Cooldown.DefaultDays # 0
        existingExclude == IF Len(update.Cooldown.Exclude) = 0 THEN DefaultExclude
                           ELSE update.Cooldown.Exclude
    IN  IF hasCooldownConfig THEN [update |-> update, fixed |-> FALSE]
        ELSE [update |-> [update EXCEPT !.Cooldown =
                  [SemverMajorDays |-> tc.UpdateDefaults.Cooldown.SemverMajorDays,
                   SemverMinorDays |-> tc.UpdateDefaults.Cooldown.SemverMinorDays,
                   SemverPatchDays |-> tc.UpdateDefaults.Cooldown.SemverPatchDays,
                   DefaultDays |-> tc.UpdateDefaults.Cooldown.DefaultDays,
                   Include |-> update.Cooldown.Include,
                   Exclude |-> existingExclude]],
              fixed |-> TRUE]

Digits == <<"0", "1", "2", "3", "4", "5", "6", "7", "8", "9">>

IsDigit(c) == \E i \in 1..Len(Digits) : Digits[i] = c

\* prefixRegex ^(\d{2})_(.+)$ matches
HasGroupPrefix(name) ==
    Len(name) >= 4 /\ IsDigit(name[1]) /\ IsDigit(name[2]) /\ name[3] = "_"

\* only the first digit
GroupPrefixMutant(name) == SubSeq(name, 1, 1)

GroupPrefix(name) == SubSeq(name, 1, 2)

\* keeps the prefix
GroupBaseNameMutant(name) == name

GroupBaseName(name) == IF HasGroupPrefix(name) THEN SubSeq(name, 4, Len(name)) ELSE name

\* fmt.Sprintf("%02d", n), for n below 100
Format02d(n) == <<Digits[(n \div 10) + 1], Digits[(n % 10) + 1]>>

\* descending order
RECURSIVE SortStringsMutant(_)
SortStringsMutant(names) ==
    IF names = {} THEN <<>>
    ELSE LET last == CHOOSE x \in names : \A y \in names \ {x} : StrLess(y, x)
         IN  <<last>> \o SortStringsMutant(names \ {last})

\* sort.Strings
RECURSIVE SortStrings(_)
SortStrings(names) ==
    IF names = {} THEN <<>>
    ELSE LET first == CHOOSE x \in names : \A y \in names \ {x} : StrLess(x, y)
         IN  <<first>> \o SortStrings(names \ {first})

GroupOf(groups, name) == (CHOOSE g \in groups : g.Name = name).Group

ensureStableGroupPrefixes(update) ==
    LET names == {g.Name : g \in update.Groups}
        needsRenaming ==
            \/ \E n \in names : ~HasGroupPrefix(n)
            \/ \E n1, n2 \in names :
                  /\ n1 # n2 /\ HasGroupPrefix(n1) /\ HasGroupPrefix(n2)
                  /\ GroupPrefix(n1) = GroupPrefix(n2)
        origNames == SortStrings(names)
        newGroups == {[Name |-> Format02d(i) \o <<"_">> \o GroupBaseName(origNames[i]),
                       Group |-> GroupOf(update.Groups, origNames[i])] :
                      i \in 1..Len(origNames)}
    IN  IF update.Groups = {} \/ ~needsRenaming THEN update
        ELSE [update EXCEPT !.Groups = newGroups]

----------------------------------------------------------------------------
(* UpdateConfig *)

RECURSIVE Perms(_)
Perms(S) ==
    IF S = {} THEN {<<>>}
    ELSE UNION {{<<x>> \o p : p \in Perms(S \ {x})} : x \in S}

\* the less function of sort.SliceStable over manifestsSorted
ManifestLess(m1, m2) ==
    LET path1 == SplitDir(<<"/">> \o m1.Key)
        path2 == SplitDir(<<"/">> \o m2.Key)
    IN  \/ Len(path1) < Len(path2)
        \/ Len(path1) = Len(path2) /\ StrLess(path1, path2)

\* longest path first
IsSortedManifestsMutant(s) ==
    \A i, j \in 1..Len(s) : i < j => ~ManifestLess(s[i], s[j])

IsSortedManifests(s) ==
    \A i, j \in 1..Len(s) : i < j => ~ManifestLess(s[j], s[i])

\* manifestsSorted: the map's entries in any iteration order, stably sorted
ManifestsSorted(ms) == {s \in Perms(ms) : IsSortedManifests(s)}

EmptyChangeInfo ==
    [NewRegistries |-> <<>>, RemovedRegistries |-> <<>>, NewUpdates |-> <<>>,
     FixedUpdates |-> <<>>, RemovedUpdates |-> <<>>]

UpdateInfo(update) ==
    [Type |-> update.PackageEcosystem, Directory |-> update.Directory, File |-> <<>>]

UpdateInfos(updates) == [i \in 1..Len(updates) |-> UpdateInfo(updates[i])]

\* prunes nothing
RemoveNonExistingMutant(cfg, ci, de) == [config |-> cfg, changeInfo |-> ci]

\* "Remove updates with non-existing directories"
RemoveNonExisting(cfg, ci, de) ==
    [config |-> [cfg EXCEPT !.Updates = SelectSeq(@, LAMBDA update : update.Directory \in de)],
     changeInfo |-> [ci EXCEPT !.RemovedUpdates =
                        @ \o UpdateInfos(SelectSeq(cfg.Updates,
                                                   LAMBDA update : update.Directory \notin de))]]

\* the outcome of both repairs of one entry: fix1 is fixExistingUpdateConfig's,
\* fix2 addCooldownToExistingUpdate's
FixOutcome(fix1, fix2) == [update |-> fix2.update, fixed |-> fix1.fixed \/ fix2.fixed]

FixCooldown(fix1, tc) == FixOutcome(fix1, addCooldownToExistingUpdate(fix1.update, tc))

\* one round of the loop "Fix existing updates, if necessary"
FixUpdate(update, tc) == FixCooldown(fixExistingUpdateConfig(update), tc)

FixedInfos(fixes) == [i \in 1..Len(fixes) |-> UpdateInfo(fixes[i].update)]

\* the document and ChangeInfo with the outcomes of the repairs written back
WithFixes(state, fixes) ==
    [config |-> [state.config EXCEPT !.Updates = [i \in 1..Len(fixes) |-> fixes[i].update]],
     changeInfo |-> [state.changeInfo EXCEPT !.FixedUpdates =
                        @ \o FixedInfos(SelectSeq(fixes, LAMBDA fix : fix.fixed))]]

\* "Fix existing updates, if necessary"
FixExisting(state, tc) ==
    WithFixes(state, [i \in 1..Len(state.config.Updates) |->
                         FixUpdate(state.config.Updates[i], tc)])

\* "Iterate manifest files": ProcessManifest for each, in order
RECURSIVE ProcessManifests(_, _, _, _, _)
ProcessManifests(state, manifestsSorted, orders, tc, ld) ==
    IF manifestsSorted = <<>> THEN state
    ELSE ProcessManifests(
             ProcessManifest(state.config, state.changeInfo, Head(manifestsSorted).Key,
                             Head(manifestsSorted).Value, tc, ld, Head(orders)),
             Tail(manifestsSorted), Tail(orders), tc, ld)

\* "Handle stable group prefixes if enabled"; the flag is "nil", "true" or "false"
StabilizeGroups(state, tc) ==
    IF tc.StableGroupPrefixes = "nil" \/ tc.StableGroupPrefixes = "true"
    THEN [state EXCEPT !.config.Updates =
             [i \in 1..Len(@) |-> ensureStableGroupPrefixes(@[i])]]
    ELSE state

\* every registry counts as referenced
IsReferencedMutant(cfg, name) == TRUE

\* no registry counts as referenced
IsReferencedNeverMutant(cfg, name) == FALSE

IsReferenced(cfg, name) ==
    \E i \in 1..Len(cfg.Updates) : Contains(cfg.Updates[i].Registries, name)

\* "Check if there are unused registries to be removed"; the map is visited in
\* the order its names have in registryOrder
RemoveUnusedRegistries(state, registryOrder) ==
    [config |-> [state.config EXCEPT !.Registries =
                    {r \in @ : IsReferenced(state.config, r.Name)}],
     changeInfo |-> [state.changeInfo EXCEPT !.RemovedRegistries =
                        @ \o SelectSeq(registryOrder,
                                       LAMBDA info :
                                           /\ \E r \in state.config.Registries :
                                                 r.Name = info.Name /\ r.Type = info.Type
                                           /\ ~IsReferenced(state.config, info.Name))]]

\* UpdateConfig: the document and the ChangeInfo it returns. manifestsSorted is
\* the sorted manifest list, orders the iteration order of the default-registry
\* map for each manifest, registryOrder that of the document's registries map,
\* as a list of the (type, name) pairs a registry can have
UpdateConfig(cfg, manifestsSorted, orders, registryOrder, tc, ld, de) ==
    RemoveUnusedRegistries(
        StabilizeGroups(
            ProcessManifests(
                FixExisting(RemoveNonExisting(cfg, EmptyChangeInfo, de), tc),
                manifestsSorted, orders, tc, ld),
            tc),
        registryOrder)

\* the (type, name) pairs of the registries a run can come across
RegistryInfos(cfg, tc) == {[Type |-> r.Type, Name |-> r.Name] : r \in cfg.Registries \cup tc.Registries}

\* the iteration orders the default-registry maps can take, one per manifest
RECURSIVE RegistryOrders(_, _)
RegistryOrders(manifestsSorted, tc) ==
    IF manifestsSorted = <<>> THEN {<<>>}
    ELSE {<<o>> \o rest :
            o \in Perms(DefaultRegistriesOf(tc, Head(manifestsSorted).Value)),
            rest \in RegistryOrders(Tail(manifestsSorted), tc)}

----------------------------------------------------------------------------
(* Serializer *)

\* ecosystem ids in the byte order of their names
EcosystemOrder == <<"", "bundler", "docker", "github-actions", "mix", "npm", "pip">>

EcosystemRank(e) == CHOOSE i \in 1..Len(EcosystemOrder) : EcosystemOrder[i] = e

\* a variant that compares the ecosystems only
UpdateLessMutant(a, b) ==
    EcosystemRank(a.PackageEcosystem) < EcosystemRank(b.PackageEcosystem)

\* the less function of sort.Slice in ToYaml
UpdateLess(a, b) ==
    \/ EcosystemRank(a.PackageEcosystem) < EcosystemRank(b.PackageEcosystem)
    \/ /\ a.PackageEcosystem = b.PackageEcosystem
       /\ StrLess(a.Directory, b.Directory)

\* the orders sort.Slice (not stable) can leave the entries in
SortedUpdates(updates) ==
    {[i \in 1..Len(updates) |-> updates[p[i]]] :
        p \in {q \in Perms(1..Len(updates)) :
                  \A i, j \in 1..Len(updates) :
                      i < j => ~UpdateLess(updates[q[j]], updates[q[i]])}}

\* the index just past a match of \$\{\{[^}]+\}\} starting at i, 0 if none starts there
ExprEnd(s, i) ==
    LET ends == {j \in (i + 4)..(Len(s) - 1) :
                    /\ s[j] = "}" /\ s[j + 1] = "}"
                    /\ \A k \in (i + 3)..(j - 1) : s[k] # "}"}
    IN  IF /\ i + 2 <= Len(s)
           /\ s[i] = "$" /\ s[i + 1] = "{" /\ s[i + 2] = "{"
           /\ ends # {}
        THEN (CHOOSE j \in ends : \A k \in ends : j <= k) + 2
        ELSE 0

\* re.ReplaceAllString(rawString, `"$1"`) on one scalar
RECURSIVE QuoteFrom(_, _)
QuoteFrom(s, i) ==
    IF i > Len(s) THEN <<>>
    ELSE IF ExprEnd(s, i) # 0
         THEN <<"\"">> \o SubSeq(s, i, ExprEnd(s, i) - 1) \o <<"\"">>
              \o QuoteFrom(s, ExprEnd(s, i))
         ELSE <<s[i]>> \o QuoteFrom(s, i + 1)

QuoteExpressions(s) == QuoteFrom(s, 1)

\* the emitted text of a document whose entries are in the given order
YamlOf(cfg, updates) ==
    [version |-> cfg.Version,
     registries |-> {[r EXCEPT !.URL = QuoteExpressions(r.URL),
                               !.Username = QuoteExpressions(r.Username),
                               !.Password = QuoteExpressions(r.Password)] :
                     r \in cfg.Registries},
     updates |-> updates]

\* ToYaml: the document it leaves (entries sorted in place) and the bytes
ToYaml(cfg, sorted) ==
    [config |-> [cfg EXCEPT !.Updates = IF Len(cfg.Updates) > 1 THEN sorted ELSE cfg.Updates],
     yaml |-> YamlOf(cfg, IF Len(cfg.Updates) > 1 THEN sorted ELSE cfg.Updates)]

\* every text ToYaml can emit for a document
ToYamlTexts(cfg) == {ToYaml(cfg, sorted).yaml : sorted \in SortedUpdates(cfg.Updates)}

\* yaml.Unmarshal of one emitted scalar: a scalar that starts with a double
\* quote ends at the next one and nothing may follow it; any other scalar is
\* plain and is taken as it stands, double quotes inside it included
ParseScalar(s) ==
    IF Len(s) > 0 /\ s[1] = "\""
    THEN LET closing == {j \in 2..Len(s) : s[j] = "\""}
         IN  IF closing # {} /\ (\A j \in closing : j >= Len(s))
             THEN [ok |-> TRUE, value |-> SubSeq(s, 2, Len(s) - 1)]
             ELSE [ok |-> FALSE, value |-> <<>>]
    ELSE [ok |-> TRUE, value |-> s]

\* the trimming of a directory in DependabotConfig.Parse
TrimDirectory(directory) ==
    IF directory # <<"/">> /\ HasSuffix(directory, <<"/">>)
    THEN TrimSuffix(directory, <<"/">>)
    ELSE directory

\* DependabotConfig.Parse on an emitted text
Parse(yaml) ==
    [Version |-> yaml.version,
     Registries |-> {[r EXCEPT !.URL = ParseScalar(r.URL).value,
                               !.Username = ParseScalar(r.Username).value,
                               !.Password = ParseScalar(r.Password).value] :
                     r \in yaml.registries},
     Updates |-> [i \in 1..Len(yaml.updates) |->
                     [yaml.updates[i] EXCEPT
                         !.Directory = TrimDirectory(@),
                         !.Directories = [j \in 1..Len(@) |-> TrimDirectory(@[j])]]]]

\* ParseDependabotConfig: the document, or nil and an error
ParseDependabotConfig(yaml) ==
    IF \A r \in yaml.registries :
          ParseScalar(r.URL).ok /\ ParseScalar(r.Username).ok /\ ParseScalar(r.Password).ok
    THEN [config |-> Parse(yaml), ok |-> TRUE]
    ELSE [config |-> [Version |-> 0, Registries |-> {}, Updates |-> <<>>], ok |-> FALSE]

----------------------------------------------------------------------------
(* Inputs *)

Root == <<"/">>
DirA == <<"/", "a">>
DirASlash == <<"/", "a", "/">>
DirAA == <<"/", "a", "a">>
DirASubA == <<"/", "a", "/", "a">>

FileRoot == <<"f">>
FileA == <<"a", "/", "f">>
FileAA == <<"a", "a", "/", "f">>
FileASubA == <<"a", "/", "a", "/", "f">>

\* an entry as ParseDependabotConfig yields it when only these keys are given
Entry(ecosystem, directory, directories, registries) ==
    [PackageEcosystem |-> ecosystem, Directory |-> directory,
     Directories |-> directories, Schedule |-> NoSchedule, Registries |-> registries,
     CommitMessage |-> NoCommitMessage, OpenPullRequestsLimit |-> 0, Groups |-> {},
     InsecureExternalCodeExecution |-> "", RebaseStrategy |-> "",
     Cooldown |-> NoCooldown]

Document(registries, updates) ==
    [Version |-> 2, Registries |-> registries, Updates |-> updates]

SeqsUpTo(S, n) == UNION {[1..k -> S] : k \in 0..n}

NoDefaults ==
    [Schedule |-> NoSchedule, CommitMessage |-> NoCommitMessage,
     OpenPullRequestsLimit |-> 0, InsecureExternalCodeExecution |-> "",
     RebaseStrategy |-> "", Cooldown |-> NoCooldown]

NoToolConfig ==
    [UpdateDefaults |-> NoDefaults, UpdateOverrides |-> {}, Registries |-> {},
     StableGroupPrefixes |-> "nil"]

----------------------------------------------------------------------------
(* SpecCover: IsManifestCovered called on a document *)

CoverDirectories ==
    {[dir |-> <<>>, dirs |-> <<>>],
     [dir |-> Root, dirs |-> <<>>],
     [dir |-> DirA, dirs |-> <<>>],
     [dir |-> DirASlash, dirs |-> <<>>],
     [dir |-> <<>>, dirs |-> <<(<<>>)>>],
     [dir |-> <<>>, dirs |-> <<(<<>>), DirAA>>],
     [dir |-> DirAA, dirs |-> <<DirA>>]}

CoverEntries ==
    {Entry(e, d.dir, d.dirs, <<>>) :
        e \in {"", "docker", "pip", "github-actions"}, d \in CoverDirectories}
    \cup {Entry("pip", DirA, <<>>, <<"r1">>)}

CoverArgs ==
    [file : {FileRoot, FileA, FileAA, FileASubA},
     type : {"", "docker", "pip", "github-actions"},
     regs : {<<>>, <<"r1">>}]

InitCover ==
    /\ config \in {Document({}, u) : u \in SeqsUpTo(CoverEntries, MaxUpdates)}
    /\ args \in CoverArgs
    /\ pc = "input"
    /\ ret = FALSE
    /\ pre = config
    /\ changeInfo = EmptyChangeInfo
    /\ toolConfig = NoToolConfig
    /\ manifests = {}
    /\ dirExists = {}
    /\ loader = {}
    /\ runs = 0
    /\ yamlPrev = {}

CallIsManifestCovered ==
    /\ pc = "input"
    /\ LET r == IsManifestCovered(config, args.file, args.type, args.regs)
       IN  /\ config' = r.config
           /\ ret' = r.covered
    /\ pre' = config
    /\ pc' = "IsManifestCovered"
    /\ UNCHANGED <<changeInfo, toolConfig, manifests, dirExists, loader, args, runs, yamlPrev>>

NextCover == CallIsManifestCovered

SpecCover == InitCover /\ [][NextCover]_vars

\* the directory a manifest lies in: "/" for a file at the top, else the path
\* of its folder without a trailing slash; github-actions manifests lie in "/"
ManifestDirectory(file, type) ==
    LET path == <<"/">> \o file
        last == CHOOSE i \in 1..Len(path) :
                    path[i] = "/" /\ \A j \in (i + 1)..Len(path) : path[j] # "/"
    IN  IF type = "github-actions" \/ last = 1 THEN Root
        ELSE SubSeq(path, 1, last - 1)

\* D with one trailing slash ignored
WithoutTrailingSlash(D) == IF D # <<>> /\ D[Len(D)] = "/" THEN SubSeq(D, 1, Len(D) - 1) ELSE D

\* the matching policy: exact for docker, at or below D for the others
Matches(type, dir, D) ==
    LET d == WithoutTrailingSlash(D)
    IN  IF type = "docker" THEN dir = (IF d = <<>> THEN Root ELSE d)
        ELSE dir = d \/ HasPrefix(dir, d \o <<"/">>)

Elements(list) == {list[i] : i \in 1..Len(list)}

\* every non-empty directory value of an entry
DirectoryValues(update) == ({update.Directory} \cup Elements(update.Directories)) \ {<<>>}

\* the values the entry is located by: its directory, or else its directories
LocatingValues(update) ==
    IF update.Directory # <<>> THEN {update.Directory} ELSE Elements(update.Directories)

ReferenceCoveredOriginal(updates, file, type) ==
    \E i \in 1..Len(updates) :
        /\ updates[i].PackageEcosystem # ""
        /\ updates[i].PackageEcosystem = type
        /\ \E D \in DirectoryValues(updates[i]) :
              Matches(type, ManifestDirectory(file, type), D)

ReferenceCovered(updates, file, type) ==
    \E i \in 1..Len(updates) :
        /\ updates[i].PackageEcosystem # ""
        /\ updates[i].PackageEcosystem = type
        /\ DirectoryValues(updates[i]) # {}
        /\ \E D \in LocatingValues(updates[i]) :
              Matches(type, ManifestDirectory(file, type), D)

\* C3 as stated: IsManifestCovered is true iff some entry of the same non-empty
\* ecosystem has a directory value (its directory or an element of its
\* directories) that matches the manifest's directory under the ecosystem's policy
C3_CoveredIffAnyDirectoryValue ==
    pc = "IsManifestCovered" =>
        (ret <=> ReferenceCoveredOriginal(pre.Updates, args.file, args.type))

\* C3 amended: IsManifestCovered is true iff some entry of the same non-empty
\* ecosystem that has a non-empty directory value matches the manifest's directory
\* by its directory, or, when its directory is empty, by an element of its
\* directories (an empty element standing for /): exactly for docker, at or below
\* at a segment boundary for the others, one trailing slash ignored
C3_CoveredIffLocatingValue ==
    pc = "IsManifestCovered" =>
        (ret <=> ReferenceCovered(pre.Updates, args.file, args.type))

\* a pip manifest two levels down covered by a trailing-slash entry above it,
\* next to a docker entry at / that does not count
C3_Witness ==
    /\ pc = "IsManifestCovered"
    /\ ret
    /\ args.type = "pip"
    /\ args.file = FileASubA
    /\ pre.Updates = <<Entry("docker", Root, <<>>, <<>>), Entry("pip", DirASlash, <<>>, <<>>)>>

----------------------------------------------------------------------------
(* SpecRegistry: IsRegistryUsed called for a default registry *)

UrlHostA == <<"h", ":", "/", "/", "a">>
UrlHostAPath == <<"h", ":", "/", "/", "a", "/", "g">>
UrlHostB == <<"h", ":", "/", "/", "b">>
UrlEnv == <<"$", "{", "{", "a", "}", "}">>
UrlEnvInPath == <<"b", "$", "{", "{", "a", "}", "}">>
UrlNoHost == <<"b">>

FileG == <<"g">>

DefaultRegistry(ecosystem, name, type, url, required, additional) ==
    [Ecosystem |-> ecosystem, Name |-> name, Type |-> type, URL |-> url,
     Username |-> <<>>, Password |-> <<>>,
     URLMatchRequired |-> required, URLMatchAdditionalFiles |-> additional]

RegistryArgs ==
    {[manifestFile |-> m.file, manifestPath |-> m.path,
      registry |-> DefaultRegistry("docker", "r1", "t1", url, TRUE, additional)] :
        m \in {[file |-> FileRoot, path |-> Root], [file |-> FileA, path |-> DirA]},
        url \in {UrlHostA, UrlHostAPath, UrlHostB, UrlEnv, UrlEnvInPath, UrlNoHost},
        additional \in {<<>>, <<FileG>>}}

LoadableFiles == {FileRoot, FileA, Root \o FileG, DirA \o <<"/">> \o FileG}

InitRegistry ==
    /\ args \in RegistryArgs
    /\ loader \in SUBSET LoadableFiles
    /\ config = Document({}, <<>>)
    /\ pc = "input"
    /\ ret = FALSE
    /\ pre = config
    /\ changeInfo = EmptyChangeInfo
    /\ toolConfig = NoToolConfig
    /\ manifests = {}
    /\ dirExists = {}
    /\ runs = 0
    /\ yamlPrev = {}

CallIsRegistryUsed ==
    /\ pc = "input"
    /\ ret' = IsRegistryUsed(args.manifestFile, args.manifestPath, args.registry, loader)
    /\ pc' = "IsRegistryUsed"
    /\ UNCHANGED <<config, changeInfo, toolConfig, manifests, dirExists, loader, args,
                   pre, runs, yamlPrev>>

NextRegistry == CallIsRegistryUsed

SpecRegistry == InitRegistry /\ [][NextRegistry]_vars

\* the value contains a ${{...}} expression
IsEnvVarReference(value) == \E i \in 1..Len(value) : ExprEnd(value, i) # 0

\* C8: IsRegistryUsed is true for every registry whose URL contains a ${{...}}
\* expression, whatever the loader returns, and false for a URL that is no such
\* reference and has no host
C8_EnvVarUrlIsUsed ==
    pc = "IsRegistryUsed" =>
        /\ IsEnvVarReference(args.registry.URL) => ret
        /\ (~IsEnvVarReference(args.registry.URL) /\ Hostname(args.registry.URL) = <<>>)
               => ~ret

----------------------------------------------------------------------------
(* SpecProcess: ProcessManifest called on a document *)

\* pip: r1 needs a host match (also looked for in the sibling file g), r2 does not;
\* docker: r1 again, needing a match, its URL a ${{...}} expression
RegistryA == DefaultRegistry("pip", "r1", "t1", UrlHostA, TRUE, <<FileG>>)
RegistryB == DefaultRegistry("pip", "r2", "t2", UrlHostB, FALSE, <<>>)
RegistryC == DefaultRegistry("docker", "r1", "t3", UrlEnv, TRUE, <<>>)

DocRegistry(name, type, url) ==
    [Name |-> name, Type |-> type, URL |-> url, Username |-> <<>>, Password |-> <<>>]

DocRegistry1 == DocRegistry("r1", "t1", UrlHostA)
DocRegistry2 == DocRegistry("r2", "t2", UrlHostB)

ToolConfigWith(registries) == [NoToolConfig EXCEPT !.Registries = registries]

ProcessEntries ==
    {Entry("pip", Root, <<>>, <<>>),
     Entry("pip", DirA, <<>>, <<"r1">>),
     Entry("pip", <<>>, <<DirASlash, DirAA>>, <<>>),
     Entry("pip", <<>>, <<>>, <<>>),
     Entry("pip", DirA, <<>>, <<"r2", "r2">>),
     Entry("docker", Root, <<>>, <<>>),
     Entry("docker", DirAA, <<DirA>>, <<>>)}

InitProcess ==
    /\ config \in {Document(r, u) : r \in {{}, {DocRegistry1}},
                                    u \in SeqsUpTo(ProcessEntries, MaxUpdates)}
    /\ args \in [file : {<<>>, FileRoot, FileA, FileASubA}, type : {"", "pip", "docker"}]
    /\ toolConfig \in {ToolConfigWith(r) :
                          r \in {{}, {RegistryA}, {RegistryA, RegistryB},
                                 {RegistryA, RegistryB, RegistryC}}}
    /\ loader \in {{}, {FileA}, {DirA \o <<"/">> \o FileG}}
    /\ pc = "input"
    /\ ret = FALSE
    /\ pre = config
    /\ changeInfo = EmptyChangeInfo
    /\ manifests = {}
    /\ dirExists = {}
    /\ runs = 0
    /\ yamlPrev = {}

CallProcessManifest ==
    /\ pc = "input"
    /\ \E order \in Perms(DefaultRegistriesOf(toolConfig, args.type)) :
          LET r == ProcessManifest(config, changeInfo, args.file, args.type,
                                   toolConfig, loader, order)
          IN  /\ config' = r.config
              /\ changeInfo' = r.changeInfo
    /\ pre' = config
    /\ pc' = "ProcessManifest"
    /\ UNCHANGED <<toolConfig, manifests, dirExists, loader, args, ret, runs, yamlPrev>>

NextProcess == CallProcessManifest

SpecProcess == InitProcess /\ [][NextProcess]_vars

\* C2: a manifest whose directory is covered, under its ecosystem's policy, by an
\* entry of its ecosystem that is in the document when ProcessManifest is called
\* leaves the number of entries and ChangeInfo.NewUpdates as they were
C2_NoDuplicateCoverage ==
    (pc = "ProcessManifest" /\ ReferenceCovered(pre.Updates, args.file, args.type)) =>
        /\ Len(config.Updates) = Len(pre.Updates)
        /\ changeInfo.NewUpdates = <<>>

\* a pip manifest below /a, covered by an entry that lists /a/ among its
\* directories, which takes the registry reference instead of a new entry
C2_Witness ==
    /\ pc = "ProcessManifest"
    /\ args = [file |-> FileASubA, type |-> "pip"]
    /\ pre.Updates = <<Entry("docker", Root, <<>>, <<>>),
                       Entry("pip", <<>>, <<DirASlash, DirAA>>, <<>>)>>
    /\ config.Updates = <<Entry("docker", Root, <<>>, <<>>),
                          Entry("pip", <<>>, <<DirASlash, DirAA>>, <<"r2">>)>>
    /\ changeInfo.NewUpdates = <<>>

\* the files IsRegistryUsed is to search for a manifest: the manifest itself
\* and the additional files beside it
SearchedFiles(file, type, registry) ==
    {file} \cup
    {(IF ManifestDirectory(file, type) = Root THEN <<>> ELSE ManifestDirectory(file, type))
         \o <<"/">> \o g : g \in Elements(registry.URLMatchAdditionalFiles)}

\* the registry's host is named in none of the files searched
HostAbsent(file, type, registry) ==
    \A f \in SearchedFiles(file, type, registry) :
        ~StrContains(LoadFile(loader, f), Hostname(registry.URL))

\* C7: a default registry of the manifest's ecosystem that is url-match-required
\* and whose host is in none of the searched files is not added to the registries
\* map, not recorded in NewRegistries and not appended to any entry's registries
C7_RegistryGating ==
    pc = "ProcessManifest" =>
        \A r \in DefaultRegistriesOf(toolConfig, args.type) :
            (r.URLMatchRequired /\ HostAbsent(args.file, args.type, r)) =>
                /\ HasKey(config.Registries, r.Name) => HasKey(pre.Registries, r.Name)
                /\ \A i \in 1..Len(changeInfo.NewRegistries) :
                      changeInfo.NewRegistries[i].Name # r.Name
                /\ \A i \in 1..Len(config.Updates) :
                      Contains(config.Updates[i].Registries, r.Name) =>
                          /\ i <= Len(pre.Updates)
                          /\ Contains(pre.Updates[i].Registries, r.Name)

\* a pip manifest in /a/a whose files do not name r1's host: the new entry
\* references r2 only and only r2 enters the registries map
C7_Witness ==
    /\ pc = "ProcessManifest"
    /\ args = [file |-> FileASubA, type |-> "pip"]
    /\ RegistryA \in toolConfig.Registries
    /\ HostAbsent(args.file, args.type, RegistryA)
    /\ pre = Document({}, <<>>)
    /\ config.Registries = {DocRegistry2}
    /\ Len(config.Updates) = 1
    /\ config.Updates[1].Registries = <<"r2">>
    /\ changeInfo.NewRegistries = <<[Type |-> "t2", Name |-> "r2"]>>

\* the entry locates the manifest: same non-empty ecosystem, a directory set,
\* and a locating value that matches the manifest's directory
Locates(update, file, type) ==
    /\ update.PackageEcosystem # ""
    /\ update.PackageEcosystem = type
    /\ DirectoryValues(update) # {}
    /\ \E D \in LocatingValues(update) : Matches(type, ManifestDirectory(file, type), D)

\* the place of the entry that covers the manifest after the call: the first
\* entry of the input that locates it, or else the place of the appended entry
CoveringPlace ==
    IF \E i \in 1..Len(pre.Updates) : Locates(pre.Updates[i], args.file, args.type)
    THEN CHOOSE i \in 1..Len(pre.Updates) :
             /\ Locates(pre.Updates[i], args.file, args.type)
             /\ \A j \in 1..(i - 1) : ~Locates(pre.Updates[j], args.file, args.type)
    ELSE Len(pre.Updates) + 1

Occurrences(list, item) == Cardinality({i \in 1..Len(list) : list[i] = item})

\* the default registries of the manifest's ecosystem that need no URL match
UnconditionalRegistries ==
    {r \in DefaultRegistriesOf(toolConfig, args.type) : ~r.URLMatchRequired}

\* C23 as stated: after ProcessManifest every default registry of the
\* manifest's ecosystem that is not url-match-required is a key of the
\* registries map and is listed exactly once in the covering entry
C23_DefaultRegistryListedOnce ==
    (pc = "ProcessManifest" /\ args.file # <<>> /\ args.type # "") =>
        \A r \in UnconditionalRegistries :
            /\ HasKey(config.Registries, r.Name)
            /\ CoveringPlace <= Len(config.Updates)
            /\ Occurrences(config.Updates[CoveringPlace].Registries, r.Name) = 1

\* C23: after ProcessManifest every default registry of the manifest's
\* ecosystem that is not url-match-required is a key of the registries map and
\* is listed in the covering entry: the first covering entry of the input,
\* which keeps its list and gets the name appended once if it did not list
\* it (a name it listed several times stays listed several times), or else
\* the new entry, which lists it exactly once
C23_DefaultRegistryAttached ==
    (pc = "ProcessManifest" /\ args.file # <<>> /\ args.type # "") =>
        \A r \in UnconditionalRegistries :
            /\ HasKey(config.Registries, r.Name)
            /\ CoveringPlace <= Len(config.Updates)
            /\ IF CoveringPlace <= Len(pre.Updates)
               THEN /\ Len(config.Updates) = Len(pre.Updates)
                    /\ SubSeq(config.Updates[CoveringPlace].Registries, 1,
                              Len(pre.Updates[CoveringPlace].Registries))
                          = pre.Updates[CoveringPlace].Registries
                    /\ Occurrences(config.Updates[CoveringPlace].Registries, r.Name)
                          = IF Contains(pre.Updates[CoveringPlace].Registries, r.Name)
                            THEN Occurrences(pre.Updates[CoveringPlace].Registries, r.Name)
                            ELSE 1
               ELSE /\ Len(config.Updates) = Len(pre.Updates) + 1
                    /\ Occurrences(config.Updates[CoveringPlace].Registries, r.Name) = 1

\* a pip manifest in /a with two entries that cover it: the first one, which
\* did not list r2, gets it appended after r1; the second one is left alone
C23_Witness ==
    /\ pc = "ProcessManifest"
    /\ args = [file |-> FileA, type |-> "pip"]
    /\ RegistryB \in DefaultRegistriesOf(toolConfig, "pip")
    /\ pre.Updates = <<Entry("pip", DirA, <<>>, <<"r1">>), Entry("pip", Root, <<>>, <<>>)>>
    /\ config.Updates = <<Entry("pip", DirA, <<>>, <<"r1", "r2">>),
                          Entry("pip", Root, <<>>, <<>>)>>
    /\ HasKey(config.Registries, "r2")

\* an entry without ecosystem or without a non-empty directory value
Malformed(update) == update.PackageEcosystem = "" \/ DirectoryValues(update) = {}

\* C24 (IsManifestCovered, SpecCover): a malformed entry is skipped and does
\* not end the check: a valid entry after a malformed one still covers the
\* manifests it locates, a malformed entry never covers a manifest and is
\* left as it was, and the check returns
C24_MalformedEntrySkipped ==
    pc = "IsManifestCovered" =>
        /\ (\E i, j \in 1..Len(pre.Updates) :
               /\ i < j
               /\ Malformed(pre.Updates[i])
               /\ Locates(pre.Updates[j], args.file, args.type)) => ret
        /\ (\A i \in 1..Len(pre.Updates) :
               Malformed(pre.Updates[i]) \/ ~Locates(pre.Updates[i], args.file, args.type))
              => ~ret
        /\ Len(config.Updates) = Len(pre.Updates)
        /\ \A i \in 1..Len(pre.Updates) :
              Malformed(pre.Updates[i]) => config.Updates[i] = pre.Updates[i]

\* a pip entry without directory, then a pip entry for /a that covers a/f and
\* takes the registry reference
C24_Witness ==
    /\ pc = "IsManifestCovered"
    /\ args = [file |-> FileA, type |-> "pip", regs |-> <<"r1">>]
    /\ pre.Updates = <<Entry("pip", <<>>, <<(<<>>)>>, <<>>), Entry("pip", DirA, <<>>, <<>>)>>
    /\ ret
    /\ config.Updates = <<Entry("pip", <<>>, <<(<<>>)>>, <<>>),
                          Entry("pip", DirA, <<>>, <<"r1">>)>>

\* an entry of the manifest's ecosystem with both its directory and a
\* directories value set
HasBoth(update, type) ==
    /\ update.PackageEcosystem # ""
    /\ update.PackageEcosystem = type
    /\ update.Directory # <<>>
    /\ Elements(update.Directories) \ {<<>>} # {}

\* C27 as stated (IsManifestCovered, SpecCover): an entry with both directory
\* and directories set covers a manifest whose directory matches one of the
\* directories values, also when it does not match the directory
C27_EveryDirectoryValueCovers ==
    pc = "IsManifestCovered" =>
        \A i \in 1..Len(pre.Updates) :
            (/\ HasBoth(pre.Updates[i], args.type)
             /\ \E D \in Elements(pre.Updates[i].Directories) \ {<<>>} :
                   Matches(args.type, ManifestDirectory(args.file, args.type), D))
                => ret

\* C27: an entry with both directory and directories set covers by its
\* directory alone: when every entry of the manifest's ecosystem has both set,
\* the manifest is covered iff its directory matches the directory of one of
\* them, whatever their directories values are
C27_DirectoryAloneCovers ==
    (/\ pc = "IsManifestCovered"
     /\ \A i \in 1..Len(pre.Updates) :
           pre.Updates[i].PackageEcosystem = args.type => HasBoth(pre.Updates[i], args.type))
        => (ret <=> \E i \in 1..Len(pre.Updates) :
                       /\ HasBoth(pre.Updates[i], args.type)
                       /\ Matches(args.type, ManifestDirectory(args.file, args.type),
                                  pre.Updates[i].Directory))

\* a pip entry with directory /aa and directories [/a] does not cover a/f
C27_Witness ==
    /\ pc = "IsManifestCovered"
    /\ args.file = FileA
    /\ args.type = "pip"
    /\ pre.Updates = <<Entry("pip", DirAA, <<DirA>>, <<>>)>>
    /\ ~ret

----------------------------------------------------------------------------
(* Spec: UpdateConfig run, and run again, on a document *)

FullCooldown ==
    [SemverMajorDays |-> 3, SemverMinorDays |-> 2, SemverPatchDays |-> 1,
     DefaultDays |-> 1, Include |-> <<>>, Exclude |-> <<>>]

GroupA == [Name |-> <<"a">>, Group |-> "ga"]
GroupB == [Name |-> <<"0", "1", "_", "b">>, Group |-> "gb"]

MainEntries ==
    {Entry("pip", DirA, <<>>, <<"r1">>),
     Entry("pip", <<>>, <<>>, <<>>),
     Entry("", DirA, <<>>, <<>>),
     [Entry("docker", Root, <<>>, <<>>) EXCEPT !.Groups = {GroupA, GroupB}],
     Entry("pip", <<>>, <<DirAA>>, <<"r2">>),
     [Entry("pip", Root, <<>>, <<>>) EXCEPT !.Cooldown = FullCooldown]}

MainManifests ==
    {[Key |-> FileRoot, Value |-> "pip"],
     [Key |-> FileA, Value |-> "pip"],
     [Key |-> FileASubA, Value |-> "pip"],
     [Key |-> FileAA, Value |-> "docker"],
     [Key |-> FileA, Value |-> "docker"]}

\* a Go map has one value per key
IsManifestMap(ms) == \A m1, m2 \in ms : m1.Key = m2.Key => m1 = m2

AllDirectories == {<<>>, Root, DirA, DirAA, DirASubA}

MainToolConfigs ==
    {[NoToolConfig EXCEPT !.UpdateDefaults.Cooldown = FullCooldown,
                          !.Registries = {RegistryA, RegistryB}],
     [NoToolConfig EXCEPT !.Registries = {RegistryB},
                          !.StableGroupPrefixes = "false"],
     [NoToolConfig EXCEPT !.UpdateDefaults.Cooldown = FullCooldown,
                          !.UpdateDefaults.InsecureExternalCodeExecution = "allow",
                          !.UpdateOverrides =
                              {[Ecosystem |-> "docker",
                                Overrides |-> [NoDefaults EXCEPT !.RebaseStrategy = "auto"]]},
                          !.StableGroupPrefixes = "true"]}

Init ==
    /\ config \in {Document(r, u) : r \in {{}, {DocRegistry1, DocRegistry2}},
                                    u \in SeqsUpTo(MainEntries, MaxUpdates)}
    /\ manifests \in {ms \in SUBSET MainManifests :
                         Cardinality(ms) <= MaxManifests /\ IsManifestMap(ms)}
    /\ toolConfig \in MainToolConfigs
    /\ dirExists \in {AllDirectories, AllDirectories \ {DirA},
                      AllDirectories \ {<<>>, DirAA}, AllDirectories \ {Root}}
    /\ loader = {FileA}
    /\ pc = "input"
    /\ args = <<>>
    /\ ret = FALSE
    /\ pre = config
    /\ changeInfo = EmptyChangeInfo
    /\ runs = 0
    /\ yamlPrev = {}

UpdateConfigRun ==
    /\ runs < MaxRuns
    /\ \E manifestsSorted \in ManifestsSorted(manifests) :
       \E orders \in RegistryOrders(manifestsSorted, toolConfig) :
       \E registryOrder \in Perms(RegistryInfos(config, toolConfig)) :
       \E r \in {UpdateConfig(config, manifestsSorted, orders, registryOrder,
                              toolConfig, loader, dirExists)} :
          /\ config' = r.config
          /\ changeInfo' = r.changeInfo
    /\ pre' = config
    /\ yamlPrev' = ToYamlTexts(config)
    /\ runs' = runs + 1
    /\ pc' = "UpdateConfig"
    /\ UNCHANGED <<toolConfig, manifests, dirExists, loader, args, ret>>

Next == UpdateConfigRun

Spec == Init /\ [][Next]_vars

\* C1: a second UpdateConfig run on the result of the first, with the same
\* inputs, returns five empty lists and leaves the serialization as it was
C1_SecondRunChangesNothing ==
    (pc = "UpdateConfig" /\ runs >= 2) =>
        /\ changeInfo = EmptyChangeInfo
        /\ ToYamlTexts(config) = yamlPrev

\* directory d1 is d2 or an ancestor of d2
IsAncestorOrEqual(d1, d2) == HasPrefix(PathWithEndingSlash(d2), PathWithEndingSlash(d1))

PipAAndSub == {[Key |-> FileA, Value |-> "pip"], [Key |-> FileASubA, Value |-> "pip"]}

\* C4: UpdateConfig on a document without entries leaves, for every ecosystem
\* other than docker, no two entries one of whose directories is the other's
\* ancestor or equal to it, whatever the order the manifest map is iterated in;
\* manifests a/f and a/a/f of pip give exactly one entry, with directory /a
C4_MinimalEntries ==
    (pc = "UpdateConfig" /\ pre.Updates = <<>>) =>
        /\ \A i, j \in 1..Len(config.Updates) :
              (/\ i # j
               /\ config.Updates[i].PackageEcosystem = config.Updates[j].PackageEcosystem
               /\ config.Updates[i].PackageEcosystem # "docker")
              => ~IsAncestorOrEqual(config.Updates[i].Directory, config.Updates[j].Directory)
        /\ manifests = PipAAndSub =>
              /\ Len(config.Updates) = 1
              /\ config.Updates[1].PackageEcosystem = "pip"
              /\ config.Updates[1].Directory = DirA
              /\ config.Updates[1].Directories = <<>>

C4_Witness ==
    /\ pc = "UpdateConfig" /\ runs = 1
    /\ pre.Updates = <<>>
    /\ manifests = PipAAndSub
    /\ Len(changeInfo.NewUpdates) = 1

\* the entries of the input document that the directory checker reports as gone
IsStale(update) == update.Directory \notin dirExists

HasRecord(records, type, directory) ==
    \E k \in 1..Len(records) : records[k].Type = type /\ records[k].Directory = directory

HasEntry(cfg, ecosystem, directory) ==
    \E j \in 1..Len(cfg.Updates) :
        /\ cfg.Updates[j].PackageEcosystem = ecosystem
        /\ cfg.Updates[j].Directory = directory

\* C5 as stated: an entry whose directory the checker reports as not existing
\* is recorded in RemovedUpdates and after the run the document has no entry
\* with that ecosystem and directory
C5_StaleEntryGone ==
    pc = "UpdateConfig" =>
        \A i \in 1..Len(pre.Updates) :
            IsStale(pre.Updates[i]) =>
                /\ HasRecord(changeInfo.RemovedUpdates, pre.Updates[i].PackageEcosystem,
                             pre.Updates[i].Directory)
                /\ ~HasEntry(config, pre.Updates[i].PackageEcosystem, pre.Updates[i].Directory)

\* C5: an entry whose directory the checker reports as not existing is
\* recorded in RemovedUpdates, as many records as there are such entries, and
\* an entry with that ecosystem and directory is in the document after the run
\* only if the run created it for a manifest (a NewUpdates record) or repaired
\* it from an entry without directory value (a FixedUpdates record)
C5_StaleEntryRemovedOrRecreated ==
    pc = "UpdateConfig" =>
        /\ Len(changeInfo.RemovedUpdates) =
               Cardinality({i \in 1..Len(pre.Updates) : IsStale(pre.Updates[i])})
        /\ \A i \in 1..Len(pre.Updates) :
              IsStale(pre.Updates[i]) =>
                 LET ecosystem == pre.Updates[i].PackageEcosystem
                     directory == pre.Updates[i].Directory
                 IN  /\ HasRecord(changeInfo.RemovedUpdates, ecosystem, directory)
                     /\ HasEntry(config, ecosystem, directory) =>
                           \/ HasRecord(changeInfo.NewUpdates, ecosystem, directory)
                           \/ HasRecord(changeInfo.FixedUpdates, ecosystem, directory)

C5_Witness ==
    /\ pc = "UpdateConfig"
    /\ \E i \in 1..Len(pre.Updates) :
          /\ IsStale(pre.Updates[i])
          /\ pre.Updates[i].Directory = DirA
          /\ HasEntry(config, pre.Updates[i].PackageEcosystem, DirA)
          /\ HasRecord(changeInfo.NewUpdates, pre.Updates[i].PackageEcosystem, DirA)

\* some entry of the document lists the registry name
SomeEntryNames(cfg, name) ==
    \E j \in 1..Len(cfg.Updates) :
        \E k \in 1..Len(cfg.Updates[j].Registries) : cfg.Updates[j].Registries[k] = name

RegistryRecords(records, name) == {k \in 1..Len(records) : records[k].Name = name}

\* C6: after UpdateConfig every registry of the document is referenced by an
\* entry, and every registry of the input document that no entry references is
\* out of the map and has exactly one RemovedRegistries record, with its type;
\* RemovedRegistries holds no other record
C6_UnusedRegistriesPruned ==
    pc = "UpdateConfig" =>
        /\ \A r \in config.Registries : SomeEntryNames(config, r.Name)
        /\ \A r \in pre.Registries :
              ~SomeEntryNames(config, r.Name) =>
                 /\ ~HasKey(config.Registries, r.Name)
                 /\ Cardinality(RegistryRecords(changeInfo.RemovedRegistries, r.Name)) = 1
                 /\ \A k \in RegistryRecords(changeInfo.RemovedRegistries, r.Name) :
                       changeInfo.RemovedRegistries[k].Type = r.Type
        /\ \A k \in 1..Len(changeInfo.RemovedRegistries) :
              /\ HasKey(pre.Registries, changeInfo.RemovedRegistries[k].Name)
              /\ ~SomeEntryNames(config, changeInfo.RemovedRegistries[k].Name)

C6_Witness ==
    /\ pc = "UpdateConfig"
    /\ Len(changeInfo.RemovedRegistries) = 1
    /\ Cardinality(config.Registries) = 1
    /\ Cardinality(pre.Registries) = 2

\* an entry without directory value: directory empty, no non-empty directories
LacksDirectory(update) ==
    /\ update.Directory = <<>>
    /\ \A k \in 1..Len(update.Directories) : update.Directories[k] = <<>>

\* C9: every entry of the input document that has no directory value is in the
\* document after the run, with directory / and no directories list, and has a
\* FixedUpdates record, whatever the directory checker answers
C9_EmptyDirectoryRepaired ==
    pc = "UpdateConfig" =>
        \A i \in 1..Len(pre.Updates) :
            LacksDirectory(pre.Updates[i]) =>
                /\ \E j \in 1..Len(config.Updates) :
                      /\ config.Updates[j].PackageEcosystem = pre.Updates[i].PackageEcosystem
                      /\ config.Updates[j].Directory = Root
                      /\ config.Updates[j].Directories = <<>>
                /\ HasRecord(changeInfo.FixedUpdates, pre.Updates[i].PackageEcosystem, Root)

\* C10 as stated: after UpdateConfig every entry has a non-empty ecosystem and
\* a non-empty directory value
C10_EcosystemAndDirectorySet ==
    pc = "UpdateConfig" =>
        \A j \in 1..Len(config.Updates) :
            /\ config.Updates[j].PackageEcosystem # ""
            /\ ~LacksDirectory(config.Updates[j])

\* C10: after UpdateConfig every entry has a non-empty directory value; an
\* entry without ecosystem is left without one, and only entries of the input
\* document are without ecosystem: as many after the run as the input had in
\* directories the checker reports as existing
C10_DirectorySet ==
    pc = "UpdateConfig" =>
        /\ \A j \in 1..Len(config.Updates) : ~LacksDirectory(config.Updates[j])
        /\ Cardinality({j \in 1..Len(config.Updates) :
                           config.Updates[j].PackageEcosystem = ""})
           = Cardinality({i \in 1..Len(pre.Updates) :
                             /\ pre.Updates[i].PackageEcosystem = ""
                             /\ ~IsStale(pre.Updates[i])})

C10_Witness ==
    /\ pc = "UpdateConfig"
    /\ \E i \in 1..Len(pre.Updates) : LacksDirectory(pre.Updates[i])
    /\ \E j \in 1..Len(config.Updates) : config.Updates[j].PackageEcosystem = ""
    /\ HasRecord(changeInfo.FixedUpdates, "pip", Root)

\* an entry of the document lists a registry name the document does not define
IsDangling(cfg, name) == SomeEntryNames(cfg, name) /\ ~HasKey(cfg.Registries, name)

RegistryNames == {"r1", "r2"}

UsesDirectories(update) ==
    /\ update.Directory = <<>>
    /\ \E k \in 1..Len(update.Directories) : update.Directories[k] # <<>>

C28_ReconciliationDeterministic ==
    [][pc' = "UpdateConfig" =>
          \A manifestsSorted \in ManifestsSorted(manifests) :
          \A orders \in RegistryOrders(manifestsSorted, toolConfig) :
          \A registryOrder \in Perms(RegistryInfos(config, toolConfig)) :
          \A r \in {UpdateConfig(config, manifestsSorted, orders, registryOrder,
                                 toolConfig, loader, dirExists)} :
              /\ r.changeInfo = changeInfo'
              /\ ToYamlTexts(r.config) = ToYamlTexts(config')]_vars

\* C30 as stated: when UpdateConfig returns a ChangeInfo whose five lists are
\* all empty, the document is equal to the input document
C30_EmptyChangeInfoMeansUnchanged ==
    (pc = "UpdateConfig" /\ changeInfo = EmptyChangeInfo) => config = pre

----------------------------------------------------------------------------
(* SpecGroups: ensureStableGroupPrefixes called on an entry *)

MaxGroups == 3

GroupNames ==
    {<<"f">>, <<"b">>, <<"g">>,
     <<"0", "1", "_", "f">>, <<"0", "1", "_", "b">>, <<"0", "2", "_", "b">>,
     <<"0", "5", "_", "g">>, <<"0", "1", "_">>}

GroupContents == {"p", "q"}

\* the groups maps of up to MaxGroups groups: one content per name
GroupMaps ==
    UNION {[names -> GroupContents] :
              names \in {ns \in SUBSET GroupNames : Cardinality(ns) <= MaxGroups}}

GroupsOf(map) == {[Name |-> name, Group |-> map[name]] : name \in DOMAIN map}

InitGroups ==
    /\ config \in {Document({}, <<[Entry("npm", Root, <<>>, <<>>) EXCEPT
                                      !.Groups = GroupsOf(map)]>>) : map \in GroupMaps}
    /\ pre = config
    /\ pc = "input"
    /\ changeInfo = EmptyChangeInfo
    /\ toolConfig = NoToolConfig
    /\ manifests = {}
    /\ dirExists = {}
    /\ loader = {}
    /\ args = <<>>
    /\ ret = FALSE
    /\ runs = 0
    /\ yamlPrev = {}

CallEnsureStableGroupPrefixes ==
    /\ pc = "input"
    /\ config' = [config EXCEPT !.Updates[1] = ensureStableGroupPrefixes(@)]
    /\ pc' = "ensureStableGroupPrefixes"
    /\ UNCHANGED <<changeInfo, toolConfig, manifests, dirExists, loader, args, ret, pre,
                   runs, yamlPrev>>

NextGroups == CallEnsureStableGroupPrefixes

SpecGroups == InitGroups /\ [][NextGroups]_vars

\* a name matches NN_x: two digits, an underscore, at least one more character
IsPrefixed(name) ==
    /\ Len(name) >= 4
    /\ name[1] \in {"0", "1", "2", "3", "4", "5", "6", "7", "8", "9"}
    /\ name[2] \in {"0", "1", "2", "3", "4", "5", "6", "7", "8", "9"}
    /\ name[3] = "_"

Stripped(name) == IF IsPrefixed(name) THEN SubSeq(name, 4, Len(name)) ELSE name

NamesOf(groups) == {g.Name : g \in groups}

\* the groups need new prefixes: a name without prefix, or two with the same
NeedsPrefixes(groups) ==
    \/ \E g \in groups : ~IsPrefixed(g.Name)
    \/ \E g1, g2 \in groups :
          g1.Name # g2.Name /\ IsPrefixed(g1.Name) /\ IsPrefixed(g2.Name)
          /\ SubSeq(g1.Name, 1, 2) = SubSeq(g2.Name, 1, 2)

\* NN for position n of at most 9
TwoDigits(n) == <<"0", <<"1", "2", "3", "4", "5", "6", "7", "8", "9">>[n]>>

\* the groups renamed along an enumeration of them
Renamed(order) ==
    {[Name |-> TwoDigits(i) \o <<"_">> \o Stripped(order[i].Name), Group |-> order[i].Group] :
        i \in 1..Len(order)}

BeforeGroups == pre.Updates[1].Groups
AfterGroups == config.Updates[1].Groups

\* C12 as stated: when a name lacks a prefix or two share one, the groups are
\* renamed 01_, 02_, ... in the lexicographic order of their base names
C12_PrefixesInBaseNameOrder ==
    (pc = "ensureStableGroupPrefixes" /\ NeedsPrefixes(BeforeGroups)) =>
        \E order \in Perms(BeforeGroups) :
            /\ \A i, j \in 1..Len(order) :
                  i < j => ~StrLess(Stripped(order[j].Name), Stripped(order[i].Name))
            /\ AfterGroups = Renamed(order)

\* C12: when a name lacks a prefix or two share one, the groups are renamed
\* 01_, 02_, ... in the lexicographic order of their names as they were, prefix
\* included, each keeping its base name and content; {f, b, g} becomes
\* {01_b, 02_f, 03_g}, {01_f, 01_b} becomes {01_b, 02_f}, and no group is lost
C12_PrefixesInNameOrder ==
    (pc = "ensureStableGroupPrefixes" /\ NeedsPrefixes(BeforeGroups)) =>
        /\ \E order \in Perms(BeforeGroups) :
              /\ \A i, j \in 1..Len(order) :
                    i < j => StrLess(order[i].Name, order[j].Name)
              /\ AfterGroups = Renamed(order)
        /\ Cardinality(AfterGroups) = Cardinality(BeforeGroups)
        /\ NamesOf(BeforeGroups) = {<<"f">>, <<"b">>, <<"g">>} =>
              NamesOf(AfterGroups) = {<<"0", "1", "_", "b">>, <<"0", "2", "_", "f">>,
                                      <<"0", "3", "_", "g">>}
        /\ NamesOf(BeforeGroups) = {<<"0", "1", "_", "f">>, <<"0", "1", "_", "b">>} =>
              NamesOf(AfterGroups) = {<<"0", "1", "_", "b">>, <<"0", "2", "_", "f">>}

C12_Witness ==
    /\ pc = "ensureStableGroupPrefixes"
    /\ NamesOf(BeforeGroups) = {<<"0", "2", "_", "b">>, <<"f">>, <<"0", "5", "_", "g">>}
    /\ NamesOf(AfterGroups) = {<<"0", "1", "_", "b">>, <<"0", "2", "_", "g">>,
                               <<"0", "3", "_", "f">>}

\* C13: an entry whose group names all carry a prefix, no two the same, or
\* that has no groups, is left as it was by ensureStableGroupPrefixes
C13_UniquePrefixesUnchanged ==
    (pc = "ensureStableGroupPrefixes" /\ ~NeedsPrefixes(BeforeGroups)) => config = pre

C13_Witness ==
    /\ pc = "ensureStableGroupPrefixes"
    /\ NamesOf(BeforeGroups) = {<<"0", "2", "_", "b">>, <<"0", "5", "_", "g">>}
    /\ config = pre

\* the number of groups whose original name is smaller than this one
NameRank(groups, name) == Cardinality({g \in groups : StrLess(g.Name, name)})

\* C21: when ensureStableGroupPrefixes renames, each group gets the prefix of
\* the place its original name, old prefix included, has among the original
\* names in lexicographic order, so a prefixed name stays before the
\* unprefixed ones: {01_f, b} becomes {01_f, 02_b}
C21_PrefixedNamesKeepTheirPlace ==
    (pc = "ensureStableGroupPrefixes" /\ NeedsPrefixes(BeforeGroups)) =>
        /\ \A g \in BeforeGroups :
              [Name |-> TwoDigits(NameRank(BeforeGroups, g.Name) + 1) \o <<"_">>
                           \o Stripped(g.Name),
               Group |-> g.Group] \in AfterGroups
        /\ NamesOf(BeforeGroups) = {<<"0", "1", "_", "f">>, <<"b">>} =>
              NamesOf(AfterGroups) = {<<"0", "1", "_", "f">>, <<"0", "2", "_", "b">>}

C21_Witness ==
    /\ pc = "ensureStableGroupPrefixes"
    /\ NamesOf(BeforeGroups) = {<<"0", "1", "_", "f">>, <<"b">>}
    /\ NamesOf(AfterGroups) = {<<"0", "1", "_", "f">>, <<"0", "2", "_", "b">>}

----------------------------------------------------------------------------
(* SpecCooldown: addCooldownToExistingUpdate called on an entry *)

\* cooldowns whose day values are 0 (not set) or `days`
Cooldowns(days, includes, excludes) ==
    {[SemverMajorDays |-> major, SemverMinorDays |-> minor, SemverPatchDays |-> patch,
      DefaultDays |-> default, Include |-> include, Exclude |-> exclude] :
        major \in {0, days}, minor \in {0, days}, patch \in {0, days},
        default \in {0, days}, include \in includes, exclude \in excludes}

InitCooldown ==
    /\ config \in {Document({}, <<[Entry("npm", Root, <<>>, <<>>) EXCEPT !.Cooldown = c]>>) :
                      c \in Cooldowns(3, {<<>>, <<"y">>}, {<<>>, <<"x">>})}
    /\ toolConfig \in {[NoToolConfig EXCEPT !.UpdateDefaults.Cooldown = c] :
                          c \in Cooldowns(10, {<<>>}, {<<>>, <<"z">>})}
    /\ pre = config
    /\ pc = "input"
    /\ changeInfo = EmptyChangeInfo
    /\ manifests = {}
    /\ dirExists = {}
    /\ loader = {}
    /\ args = <<>>
    /\ ret = FALSE
    /\ runs = 0
    /\ yamlPrev = {}

CallAddCooldownToExistingUpdate ==
    /\ pc = "input"
    /\ \E r \in {addCooldownToExistingUpdate(config.Updates[1], toolConfig)} :
          /\ config' = [config EXCEPT !.Updates[1] = r.update]
          /\ ret' = r.fixed
    /\ pc' = "addCooldownToExistingUpdate"
    /\ UNCHANGED <<changeInfo, toolConfig, manifests, dirExists, loader, args, pre, runs,
                   yamlPrev>>

NextCooldown == CallAddCooldownToExistingUpdate

SpecCooldown == InitCooldown /\ [][NextCooldown]_vars

\* the entries of the input document that the run does not prune, in order
Survivors == SelectSeq(pre.Updates, LAMBDA update : ~IsStale(update))

\* C14: with the update-missing-cooldown-settings flag unset (the tool
\* configuration has no such setting) UpdateConfig leaves the cooldown of every
\* existing entry as it was and reports an entry as fixed only for its
\* directory; entries created in the run carry the tool's default cooldown
C14_ExistingCooldownUntouched ==
    pc = "UpdateConfig" =>
        /\ \A k \in 1..Len(Survivors) : config.Updates[k].Cooldown = Survivors[k].Cooldown
        /\ Len(changeInfo.FixedUpdates) =
               Cardinality({k \in 1..Len(Survivors) : LacksDirectory(Survivors[k])})
        /\ \A k \in (Len(Survivors) + 1)..Len(config.Updates) :
              config.Updates[k].Cooldown = toolConfig.UpdateDefaults.Cooldown

\* the value a day field ends with: the entry's own when set, else the default's
Filled(own, default) == IF own # 0 THEN own ELSE default

\* C15: addCooldownToExistingUpdate fills each of the four day fields that the
\* entry does not set with the tool default's value and keeps every day field
\* the entry sets: patch 3 with a default of default-days 10 ends as patch 3,
\* default-days 10 and no other day value
C15_MissingDaysFilled ==
    pc = "addCooldownToExistingUpdate" =>
        [f \in {"SemverMajorDays", "SemverMinorDays", "SemverPatchDays", "DefaultDays"} |->
            config.Updates[1].Cooldown[f]] =
            [SemverMajorDays |-> Filled(pre.Updates[1].Cooldown.SemverMajorDays,
                                        toolConfig.UpdateDefaults.Cooldown.SemverMajorDays),
             SemverMinorDays |-> Filled(pre.Updates[1].Cooldown.SemverMinorDays,
                                        toolConfig.UpdateDefaults.Cooldown.SemverMinorDays),
             SemverPatchDays |-> Filled(pre.Updates[1].Cooldown.SemverPatchDays,
                                        toolConfig.UpdateDefaults.Cooldown.SemverPatchDays),
             DefaultDays |-> Filled(pre.Updates[1].Cooldown.DefaultDays,
                                    toolConfig.UpdateDefaults.Cooldown.DefaultDays)]

----------------------------------------------------------------------------
(* SpecEntry: createUpdateEntry called for a manifest type and a tool
   configuration read from its YAML text *)

\* open-pull-requests-limit as the YAML text has it: absent, or set to a value
YamlLimits ==
    {[set |-> FALSE, value |-> 0], [set |-> TRUE, value |-> 0], [set |-> TRUE, value |-> 9]}

\* yaml.Unmarshal into the int field of UpdateDefaults
UnmarshalLimit(yamlLimit) == IF yamlLimit.set THEN yamlLimit.value ELSE 0

\* yaml.Marshal of the int field of Update, tagged omitempty
MarshalLimit(limit) == [set |-> limit # 0, value |-> limit]

EntrySchedules(interval, time) ==
    {NoSchedule, [Interval |-> interval, Day |-> "", Time |-> time, Timezone |-> ""]}

EntryCommitMessages(prefix, include) ==
    {NoCommitMessage, [Prefix |-> prefix, PrefixDevelopment |-> "", Include |-> include]}

EntryDefaults(schedules, commitMessages, insecure) ==
    {[yamlLimit |-> yamlLimit,
      defaults |-> [NoDefaults EXCEPT !.Schedule = schedule,
                                      !.CommitMessage = commitMessage,
                                      !.OpenPullRequestsLimit = UnmarshalLimit(yamlLimit),
                                      !.InsecureExternalCodeExecution = code]] :
        schedule \in schedules, commitMessage \in commitMessages,
        yamlLimit \in YamlLimits, code \in {"", insecure}}

EntryManifestTypes == {"npm", "docker", "pip"}
OverriddenEcosystems == {"docker", "pip"}

InitEntry ==
    /\ \E manifestType \in EntryManifestTypes :
       \E d \in EntryDefaults(EntrySchedules("daily", "18:15"),
                              EntryCommitMessages("dep", "scope"), "allow") :
          \/ /\ args = <<manifestType, Root, d.yamlLimit, [set |-> FALSE, value |-> 0]>>
             /\ toolConfig = [NoToolConfig EXCEPT !.UpdateDefaults = d.defaults]
          \/ \E ecosystem \in OverriddenEcosystems :
             \E o \in EntryDefaults(EntrySchedules("weekly", ""),
                                    EntryCommitMessages("ci", ""), "deny") :
                /\ args = <<manifestType, Root, d.yamlLimit, o.yamlLimit>>
                /\ toolConfig =
                      [NoToolConfig EXCEPT
                          !.UpdateDefaults = d.defaults,
                          !.UpdateOverrides =
                              {[Ecosystem |-> ecosystem, Overrides |-> o.defaults]}]
    /\ config = Document({}, <<>>)
    /\ pre = config
    /\ pc = "input"
    /\ changeInfo = EmptyChangeInfo
    /\ manifests = {}
    /\ dirExists = {}
    /\ loader = {}
    /\ ret = FALSE
    /\ runs = 0
    /\ yamlPrev = {}

CallCreateUpdateEntry ==
    /\ pc = "input"
    /\ config' = [config EXCEPT !.Updates = <<createUpdateEntry(args[1], args[2], toolConfig)>>]
    /\ pc' = "createUpdateEntry"
    /\ UNCHANGED <<changeInfo, toolConfig, manifests, dirExists, loader, args, ret, pre, runs,
                   yamlPrev>>

NextEntry == CallCreateUpdateEntry

SpecEntry == InitEntry /\ [][NextEntry]_vars

\* the override block of the manifest type, if the tool configuration has one
HasOverrides == \E o \in toolConfig.UpdateOverrides : o.Ecosystem = args[1]
OverridesOfType == (CHOOSE o \in toolConfig.UpdateOverrides : o.Ecosystem = args[1]).Overrides
Created == config.Updates[1]

\* C16: in a new entry schedule and commit-message are replaced as a whole:
\* when the ecosystem's override block sets any part of the field, the entry
\* has the override's value in every sub-field; when it does not (or there is
\* no block for the ecosystem), the entry has the default's value
C16_CompositeFieldsReplacedAsAWhole ==
    pc = "createUpdateEntry" =>
        /\ Created.Schedule =
              IF HasOverrides /\ \E f \in DOMAIN NoSchedule : OverridesOfType.Schedule[f] # ""
              THEN OverridesOfType.Schedule
              ELSE toolConfig.UpdateDefaults.Schedule
        /\ Created.CommitMessage =
              IF HasOverrides /\ \E f \in DOMAIN NoCommitMessage :
                                    OverridesOfType.CommitMessage[f] # ""
              THEN OverridesOfType.CommitMessage
              ELSE toolConfig.UpdateDefaults.CommitMessage

C16_Witness ==
    /\ pc = "createUpdateEntry"
    /\ args[1] = "docker"
    /\ toolConfig.UpdateDefaults.Schedule.Time = "18:15"
    /\ toolConfig.UpdateDefaults.CommitMessage.Include = "scope"
    /\ HasOverrides
    /\ Created.Schedule = [Interval |-> "weekly", Day |-> "", Time |-> "", Timezone |-> ""]
    /\ Created.CommitMessage = [Prefix |-> "ci", PrefixDevelopment |-> "", Include |-> ""]

\* the limit the tool configuration's text sets for the manifest type
ConfiguredLimit == IF HasOverrides /\ args[4].set THEN args[4] ELSE args[3]

\* C17: the new entry is written with the limit the tool configuration sets
\* for its ecosystem, an explicit 0 included (an override of 0 replaces a
\* default of 9), and with no limit when none is set
C17_ExplicitZeroLimitKept ==
    pc = "createUpdateEntry" =>
        MarshalLimit(Created.OpenPullRequestsLimit) = ConfiguredLimit

\* C18: a new entry for an ecosystem other than bundler, mix and pip has an
\* empty insecure-external-code-execution, whatever is configured; for
\* bundler, mix and pip it has the override's value, else the default's
C18_InsecureExecutionOnlyWhereAllowed ==
    pc = "createUpdateEntry" =>
        Created.InsecureExternalCodeExecution =
            IF args[1] \notin {"bundler", "mix", "pip"} THEN ""
            ELSE IF HasOverrides /\ OverridesOfType.InsecureExternalCodeExecution # ""
                 THEN OverridesOfType.InsecureExternalCodeExecution
                 ELSE toolConfig.UpdateDefaults.InsecureExternalCodeExecution

C18_Witness ==
    /\ pc = "createUpdateEntry"
    /\ args[1] = "docker"
    /\ toolConfig.UpdateDefaults.InsecureExternalCodeExecution = "allow"
    /\ HasOverrides
    /\ OverridesOfType.InsecureExternalCodeExecution = "deny"
    /\ Created.InsecureExternalCodeExecution = ""

----------------------------------------------------------------------------
(* SpecYaml: ToYaml called on a document, ParseDependabotConfig on its output *)

MaxYamlUpdates == 3

Expression == <<"$", "{", "{", "a", "}", "}">>

\* scalar values: plain, an expression, an expression inside a longer value
YamlValues == {<<"h">>, Expression, <<"h">> \o Expression, Expression \o <<"h">>}

YamlRegistries ==
    {{}} \cup {{[Name |-> "r1", Type |-> "t1", URL |-> url, Username |-> <<>>,
                 Password |-> password]} :
                  url \in YamlValues, password \in {<<>>, Expression}}

YamlEntries ==
    {Entry("npm", Root, <<>>, <<>>), Entry("npm", DirA, <<>>, <<>>),
     Entry("npm", DirAA, <<>>, <<>>), Entry("docker", Root, <<>>, <<>>),
     Entry("docker", <<>>, <<DirA>>, <<>>)}

InitYaml ==
    /\ config \in {Document(registries, updates) :
                      registries \in YamlRegistries,
                      updates \in SeqsUpTo(YamlEntries, MaxYamlUpdates)}
    /\ pre = config
    /\ pc = "input"
    /\ changeInfo = EmptyChangeInfo
    /\ toolConfig = NoToolConfig
    /\ manifests = {}
    /\ dirExists = {}
    /\ loader = {}
    /\ args = <<>>
    /\ ret = FALSE
    /\ runs = 0
    /\ yamlPrev = {}

CallToYaml ==
    /\ pc = "input"
    /\ \E sorted \in SortedUpdates(config.Updates) :
       \E r \in {ToYaml(config, sorted)} :
          /\ config' = r.config
          /\ yamlPrev' = {r.yaml}
    /\ pre' = config
    /\ pc' = "ToYaml"
    /\ UNCHANGED <<changeInfo, toolConfig, manifests, dirExists, loader, args, ret, runs>>

CallParseDependabotConfig ==
    /\ pc = "ToYaml"
    /\ \E yaml \in yamlPrev :
       \E r \in {ParseDependabotConfig(yaml)} :
          /\ config' = r.config
          /\ ret' = r.ok
    /\ pre' = config
    /\ pc' = "ParseDependabotConfig"
    /\ UNCHANGED <<changeInfo, toolConfig, manifests, dirExists, loader, args, runs,
                   yamlPrev>>

NextYaml == CallToYaml \/ CallParseDependabotConfig

SpecYaml == InitYaml /\ [][NextYaml]_vars

\* C19: after ToYaml, of every two consecutive entries the first one's
\* ecosystem is smaller, or the ecosystems are equal and the first one's
\* directory is not greater; the entries are those of before, none added and
\* none dropped
C19_EntriesSortedByEcosystemAndDirectory ==
    pc = "ToYaml" =>
        /\ \A i \in 1..(Len(config.Updates) - 1) :
              \/ EcosystemRank(config.Updates[i].PackageEcosystem)
                    < EcosystemRank(config.Updates[i + 1].PackageEcosystem)
              \/ /\ config.Updates[i].PackageEcosystem
                       = config.Updates[i + 1].PackageEcosystem
                 /\ ~StrLess(config.Updates[i + 1].Directory, config.Updates[i].Directory)
        /\ Len(config.Updates) = Len(pre.Updates)
        /\ \E p \in Perms(1..Len(pre.Updates)) :
              config.Updates = [i \in 1..Len(pre.Updates) |-> pre.Updates[p[i]]]

C19_Witness ==
    /\ pc = "ToYaml"
    /\ pre.Updates = <<Entry("npm", DirAA, <<>>, <<>>), Entry("npm", DirA, <<>>, <<>>),
                       Entry("docker", Root, <<>>, <<>>)>>
    /\ config.Updates = <<Entry("docker", Root, <<>>, <<>>), Entry("npm", DirA, <<>>, <<>>),
                          Entry("npm", DirAA, <<>>, <<>>)>>

\* C20: ParseDependabotConfig applied to the output of ToYaml succeeds and
\* yields the document ToYaml left: same version, registries and entries, the
\* entries in ToYaml's order
C20_RoundTrip ==
    pc = "ParseDependabotConfig" => (ret /\ config = pre)

----------------------------------------------------------------------------
(* SpecManifestType: GetManifestType called repeatedly on a path, with the
   patterns InitializePatterns compiled *)

MaxCalls == 2

\* a configured pattern: whether regexp.Compile accepts it and, if so, the
\* literal it looks for
RePattern(valid, text) == [valid |-> valid, text |-> text]

\* CompileRePattern: the compiled pattern, or nil
CompileRePattern(pattern) ==
    IF pattern.valid THEN [Nil |-> FALSE, Text |-> pattern.text]
    ELSE [Nil |-> TRUE, Text |-> <<>>]

\* InitializePatterns: the two package variables
InitializePatterns(tc) ==
    [manifestFilePatterns |->
         {[Ecosystem |-> p.Ecosystem, Re |-> CompileRePattern(p.Pattern)] :
             p \in tc.ManifestPatterns},
     manifestIgnoreFilePattern |->
         IF tc.ManifestIgnorePattern # RePattern(TRUE, <<>>)
         THEN CompileRePattern(tc.ManifestIgnorePattern)
         ELSE [Nil |-> TRUE, Text |-> <<>>]]

\* MatchString of the pattern ^(.*/)?<name>$ of an ecosystem
MatchesFileName(name, fullPath) ==
    fullPath = name \/ HasSuffix(fullPath, <<"/">> \o name)

\* MatchString of the pattern ^.*<text>.*$ of manifest-ignore-pattern
MatchesIgnorePattern(text, fullPath) == StrContains(fullPath, text)

\* the first ecosystem, in the order the map is ranged over, whose pattern
\* matches; MatchString on a nil pattern dereferences nil: "panic"
RECURSIVE FirstMatch(_, _)
FirstMatch(order, fullPath) ==
    IF order = <<>> THEN ""
    ELSE IF order[1].Re.Nil THEN "panic"
    ELSE IF MatchesFileName(order[1].Re.Text, fullPath) THEN order[1].Ecosystem
    ELSE FirstMatch(Tail(order), fullPath)

GetManifestType(fullPath, order, manifestIgnoreFilePattern) ==
    IF /\ ~manifestIgnoreFilePattern.Nil
       /\ MatchesIgnorePattern(manifestIgnoreFilePattern.Text, fullPath)
    THEN ""
    ELSE FirstMatch(order, fullPath)

PatternNames == {RePattern(TRUE, <<"f">>), RePattern(TRUE, FileA), RePattern(FALSE, <<"(">>)}

\* manifest-patterns: a map from ecosystem to pattern
ManifestPatternMaps ==
    {{[Ecosystem |-> e, Pattern |-> m[e]] : e \in E} :
        E \in SUBSET {"npm", "pip"}, m \in [{"npm", "pip"} -> PatternNames]}

IgnorePatterns == {RePattern(TRUE, <<>>), RePattern(TRUE, <<"a", "a">>), RePattern(FALSE, <<"(">>)}

InitManifestType ==
    /\ toolConfig \in {[ManifestPatterns |-> patterns, ManifestIgnorePattern |-> ignore] :
                          patterns \in ManifestPatternMaps, ignore \in IgnorePatterns}
    /\ args \in {<<fullPath>> : fullPath \in {FileRoot, FileA, FileAA, FileASubA, <<"b">>}}
    /\ pc = "input"
    /\ config = Document({}, <<>>)
    /\ pre = config
    /\ changeInfo = EmptyChangeInfo
    /\ manifests = {}
    /\ dirExists = {}
    /\ loader = {}
    /\ ret = FALSE
    /\ runs = 0
    /\ yamlPrev = {}

\* a call, unless an earlier one has ended the process; its result is
\* appended to args
CallGetManifestType ==
    /\ Len(args) < 1 + MaxCalls
    /\ \A i \in 2..Len(args) : args[i] # "panic"
    /\ \E order \in Perms(InitializePatterns(toolConfig).manifestFilePatterns) :
          args' = Append(args,
                         GetManifestType(
                             args[1], order,
                             InitializePatterns(toolConfig).manifestIgnoreFilePattern))
    /\ pc' = "GetManifestType"
    /\ UNCHANGED <<config, changeInfo, toolConfig, manifests, dirExists, loader, ret, pre,
                   runs, yamlPrev>>

NextManifestType == CallGetManifestType

SpecManifestType == InitManifestType /\ [][NextManifestType]_vars

\* the ignore pattern is compiled and matches the path
Ignored ==
    /\ toolConfig.ManifestIgnorePattern.valid
    /\ toolConfig.ManifestIgnorePattern.text # <<>>
    /\ StrContains(args[1], toolConfig.ManifestIgnorePattern.text)

\* C22 as stated: two calls with the same patterns and the same path return
\* the same ecosystem, and a path the ignore pattern matches yields no match
C22_GetManifestTypeDeterministic ==
    /\ \A i, j \in 2..Len(args) :
          (args[i] # "panic" /\ args[j] # "panic") => args[i] = args[j]
    /\ \A i \in 2..Len(args) : Ignored => args[i] = ""

\* C29 as stated: with a manifest pattern or an ignore pattern that did not
\* compile, GetManifestType returns an ecosystem or no match for every path
C29_UncompiledPatternNotFatal ==
    \A i \in 2..Len(args) : args[i] # "panic"

====
